---- MODULE Spec2Model ----
(***************************************************************************)
(* SoundWire bus binding layer (soundwire/bus_type.c, soundwire/master.c): *)
(* the match predicate, the probe/remove/shutdown wrappers for peripheral  *)
(* ("slave") and controller ("master") devices, and driver registration.   *)
(***************************************************************************)
EXTENDS Integers, Sequences, FiniteSets, TLC

\* ------------------------------------------------------------------ bounds
MaxId == 1          \* ids of a match query range over 0..MaxId
MaxTableLen == 3    \* entries of a match query's id_table
MaxChar == 2        \* characters of a name are 1..MaxChar, 0 is NUL
MaxNameLen == 2     \* characters of a name before its NUL
MaxBinds == 2       \* binds the registry attempts per device
NSlaves == 2        \* peripherals on the bus

\* ------------------------------------------------------- program constants
ENODEV == 19
EINVAL == 22
DefaultClkStopTimeout == 300
ENOMEM == 12
\* char modalias[32]
ModaliasSize == 32

\* ------------------------------------------------------------ input sets
Slaves == 1..NSlaves
IdVals == 0..MaxId
DeviceIds == [mfg_id : IdVals, part_id : IdVals]
\* an absent table (drv->id_table == NULL)
NullTable == << >>
\* tables as the driver declares them: every table holds a zero-mfg_id sentinel
IdTables ==
    {NullTable} \cup
    { t \in UNION { [1..n -> DeviceIds] : n \in 1..MaxTableLen } :
        \E i \in 1..Len(t) : t[i].mfg_id = 0 }
Chars == 1..MaxChar
\* C strings: the characters followed by the terminating NUL
CStrings ==
    { s \o <<0>> : s \in UNION { [1..n -> Chars] : n \in 0..MaxNameLen } }
\* error codes the external collaborators and the driver callbacks may return
AttachErrs == {-517, -12}
CallbackErrs == {-5, -16}
RegistryErrs == {-17}
\* clk_stop_timeout values a driver callback may leave in the property bag
TimeoutVals == {0, 400}
BusTimeoutVals == {150, 500}

\* ---------------------------------------------------------- pure functions
RECURSIVE ScanIdTable_mfg_only(_, _, _)
\* variant: the loop compares the manufacturer id only
ScanIdTable_mfg_only(id, table, i) ==
    IF i > Len(table) \/ table[i].mfg_id = 0 THEN 0
    ELSE IF id.mfg_id = table[i].mfg_id THEN i
    ELSE ScanIdTable_mfg_only(id, table, i + 1)

RECURSIVE ScanIdTable(_, _, _)
\* the while loop of sdw_get_device_id from entry i on; 0 stands for NULL
ScanIdTable(id, table, i) ==
    IF i > Len(table) \/ table[i].mfg_id = 0 THEN 0
    ELSE IF id.mfg_id = table[i].mfg_id /\ id.part_id = table[i].part_id THEN i
    ELSE ScanIdTable(id, table, i + 1)

\* index of the matching id_table entry, 0 when there is none
sdw_get_device_id(id, table) == ScanIdTable(id, table, 1)

RECURSIVE strlen_from(_, _)
strlen_from(s, i) == IF s[i] = 0 THEN i - 1 ELSE strlen_from(s, i + 1)
strlen(s) == strlen_from(s, 1)

RECURSIVE strncmp_from(_, _, _, _)
\* strncmp over at most n characters from position i on
strncmp_from(a, b, i, n) ==
    IF i > n THEN 0
    ELSE IF a[i] # b[i] THEN a[i] - b[i]
    ELSE IF a[i] = 0 THEN 0
    ELSE strncmp_from(a, b, i + 1, n)
strncmp(a, b, n) == strncmp_from(a, b, 1, n)

\* sdw_bus_match, peripheral branch: 1 or 0
sdw_bus_match_slave(id, table) ==
    IF sdw_get_device_id(id, table) # 0 THEN 1 ELSE 0

\* variant: the comparison length is the driver name's length
sdw_bus_match_master_drvlen(master_name, driver_name) ==
    IF strncmp(master_name, driver_name, strlen(driver_name)) = 0 THEN 1 ELSE 0

\* sdw_bus_match, controller branch: 1 or 0
sdw_bus_match_master(master_name, driver_name) ==
    IF strncmp(master_name, driver_name, strlen(master_name)) = 0 THEN 1 ELSE 0

\* -------------------------------------------------------------------- state
VARIABLES
    drv,    \* the peripheral driver record (struct sdw_driver)
    mdrv,   \* the controller driver record (struct sdw_master_driver)
    slave,  \* the peripheral device records (struct sdw_slave), by device
    md,     \* the controller device record (struct sdw_master_device)
    bus,    \* the bus instance shared by the peripherals (struct sdw_bus)
    q       \* the registry's last match query and its answer

vars == <<drv, mdrv, slave, md, bus, q>>

Entry(m, p) == [mfg_id |-> m, part_id |-> p]
\* id_tables of the drivers that take part in the bind protocol
DriverTables ==
    { <<Entry(2, 1), Entry(1, 1), Entry(1, 1), Entry(0, 0)>> }
OpsVals == {"NULL", "ops", "ops_read_prop"}

Max(a, b) == IF a >= b THEN a ELSE b
\* max_t(u32, a, b): both operands are u32 fields already, so the casts
\* leave them as they are
max_t_u32(a, b) == Max(a, b)

\* a driver record as its module declares it, before registration
NewDriver(probe, remove, shutdown, ops, table) ==
    [ probe |-> probe, remove |-> remove, shutdown |-> shutdown,
      ops |-> ops, id_table |-> table,
      driver_bus |-> "NULL", driver_owner |-> "NULL",
      driver_probe |-> "NULL", driver_remove |-> "NULL",
      driver_shutdown |-> "NULL",
      pc |-> "declared", ret |-> 0, registry_ret |-> 0, log |-> << >> ]

\* a peripheral device record as enumeration leaves it (zeroed, unbound)
NewSlave(id) ==
    [ id |-> id, driver |-> FALSE, ops |-> "NULL", probed |-> FALSE,
      probe_complete |-> 0, clk_stop_timeout |-> 0, pm_domain |-> FALSE,
      pc |-> "idle", ret |-> 0, id_found |-> 0, tmp |-> 0, matched |-> 0,
      attach_ret |-> 0, cb_ret |-> 0, cb_clk |-> 0, cb_id |-> 0,
      op |-> "none", log |-> << >>, binds |-> 0, succ |-> 0,
      bind_releases |-> 0,
      entry |-> [bus |-> 0, probed |-> FALSE, done |-> 0, ops |-> "NULL",
                 clk |-> 0, pm_domain |-> FALSE] ]

\* the bus instance, with the clk_stop_timeout it was set up with
NewBus(t) == [clk_stop_timeout |-> t, initial |-> t]

\* what a wrapper finds when it is entered
Snapshot(s) ==
    [ bus |-> bus.clk_stop_timeout, probed |-> slave[s].probed,
      done |-> slave[s].probe_complete, ops |-> slave[s].ops,
      clk |-> slave[s].clk_stop_timeout, pm_domain |-> slave[s].pm_domain ]

Count(log, what) == Cardinality({ i \in 1..Len(log) : log[i] = what })

Put(s, r) == slave' = [slave EXCEPT ![s] = r]
\* a wrapper is entered for operation op: its locals are fresh, and what it
\* finds is recorded
Enter(s, op) ==
    [slave[s] EXCEPT !.op = op, !.log = << >>, !.entry = Snapshot(s),
                     !.ret = 0, !.attach_ret = 0, !.cb_ret = 0,
                     !.cb_clk = 0, !.cb_id = 0, !.tmp = 0, !.id_found = 0]
Logged(s, what) == Append(slave[s].log, what)

\* ------------------------------------------- peripheral driver registration
\* variant: the hooks are installed before the probe capability is checked
sdw_register_driver_late_check ==
    /\ drv.pc = "declared"
    /\ drv' = [drv EXCEPT
                !.driver_bus = "sdw_bus_type",
                !.driver_owner = "owner",
                !.driver_probe = "sdw_drv_probe",
                !.driver_remove =
                    IF drv.remove THEN "sdw_drv_remove" ELSE @,
                !.driver_shutdown =
                    IF drv.shutdown THEN "sdw_drv_shutdown" ELSE @,
                !.ret = IF drv.probe THEN @ ELSE -EINVAL,
                !.pc = IF drv.probe THEN "driver_register" ELSE "rejected"]
    /\ UNCHANGED <<mdrv, slave, md, bus, q>>

\* variant: the shutdown hook is installed on the remove capability
sdw_register_driver_shutdown_on_remove ==
    /\ drv.pc = "declared"
    /\ IF ~drv.probe
       THEN drv' = [drv EXCEPT !.driver_bus = "sdw_bus_type",
                               !.ret = -EINVAL, !.pc = "rejected"]
       ELSE drv' = [drv EXCEPT
                !.driver_bus = "sdw_bus_type",
                !.driver_owner = "owner",
                !.driver_probe = "sdw_drv_probe",
                !.driver_remove =
                    IF drv.remove THEN "sdw_drv_remove" ELSE @,
                !.driver_shutdown =
                    IF drv.remove THEN "sdw_drv_shutdown" ELSE @,
                !.pc = "driver_register"]
    /\ UNCHANGED <<mdrv, slave, md, bus, q>>

\* __sdw_register_driver up to the call of driver_register
sdw_register_driver ==
    /\ drv.pc = "declared"
    /\ IF ~drv.probe
       THEN drv' = [drv EXCEPT !.driver_bus = "sdw_bus_type",
                               !.ret = -EINVAL, !.pc = "rejected"]
       ELSE drv' = [drv EXCEPT
                !.driver_bus = "sdw_bus_type",
                !.driver_owner = "owner",
                !.driver_probe = "sdw_drv_probe",
                !.driver_remove =
                    IF drv.remove THEN "sdw_drv_remove" ELSE @,
                !.driver_shutdown =
                    IF drv.shutdown THEN "sdw_drv_shutdown" ELSE @,
                !.pc = "driver_register"]
    /\ UNCHANGED <<mdrv, slave, md, bus, q>>

\* return driver_register(&drv->driver): the registry accepts or refuses
sdw_register_driver_call ==
    /\ drv.pc = "driver_register"
    /\ \E r \in {0} \cup RegistryErrs :
        drv' = [drv EXCEPT !.ret = r, !.registry_ret = r,
                           !.log = Append(@, "driver_register"),
                           !.pc = IF r = 0 THEN "registered" ELSE "refused"]
    /\ UNCHANGED <<mdrv, slave, md, bus, q>>

\* sdw_unregister_driver: the registry has released the driver's devices
sdw_unregister_driver ==
    /\ drv.pc = "registered"
    /\ \A s \in Slaves : ~slave[s].driver
    /\ drv' = [drv EXCEPT !.pc = "unregistered",
                          !.log = Append(@, "driver_unregister")]
    /\ UNCHANGED <<mdrv, slave, md, bus, q>>

\* ------------------------------------------------------- peripheral probe
\* the registry pairs a device with the driver: match, then the probe hook
RegistryBindSlave(s) ==
    /\ drv.pc = "registered"
    /\ slave[s].pc = "idle"
    /\ ~slave[s].driver
    /\ slave[s].binds < MaxBinds
    /\ sdw_bus_match_slave(slave[s].id, drv.id_table) = 1
    /\ drv.driver_probe = "sdw_drv_probe"
    /\ Put(s, [Enter(s, "probe") EXCEPT !.driver = TRUE,
                                        !.matched = 1,
                                        !.pc = "probe_get_id",
                                        !.binds = @ + 1,
                                        !.bind_releases = 0])
    /\ UNCHANGED <<drv, mdrv, md, bus, q>>

\* sdw_drv_probe is entered for a device the driver's table does not list
DispatchProbe(s) ==
    /\ drv.pc = "registered"
    /\ slave[s].pc = "idle"
    /\ ~slave[s].driver
    /\ slave[s].binds < MaxBinds
    /\ sdw_bus_match_slave(slave[s].id, drv.id_table) = 0
    /\ drv.driver_probe = "sdw_drv_probe"
    /\ Put(s, [Enter(s, "probe") EXCEPT !.driver = TRUE,
                                        !.matched = 0,
                                        !.pc = "probe_get_id",
                                        !.binds = @ + 1,
                                        !.bind_releases = 0])
    /\ UNCHANGED <<drv, mdrv, md, bus, q>>

\* variant: the ops are installed before the lookup's result is tested
probe_get_id_ops_first(s) ==
    /\ slave[s].pc = "probe_get_id"
    /\ LET id == sdw_get_device_id(slave[s].id, drv.id_table) IN
       IF id = 0
       THEN Put(s, [slave[s] EXCEPT !.log = Logged(s, "get_id"),
                                    !.ops = drv.ops,
                                    !.ret = -ENODEV, !.pc = "probe_ret"])
       ELSE Put(s, [slave[s] EXCEPT !.log = Logged(s, "get_id"),
                                    !.id_found = id, !.pc = "probe_ops"])
    /\ UNCHANGED <<drv, mdrv, md, bus, q>>

\* id = sdw_get_device_id(slave, drv); if (!id) return -ENODEV;
probe_get_id(s) ==
    /\ slave[s].pc = "probe_get_id"
    /\ LET id == sdw_get_device_id(slave[s].id, drv.id_table) IN
       IF id = 0
       THEN Put(s, [slave[s] EXCEPT !.log = Logged(s, "get_id"),
                                    !.ret = -ENODEV, !.pc = "probe_ret"])
       ELSE Put(s, [slave[s] EXCEPT !.log = Logged(s, "get_id"),
                                    !.id_found = id, !.pc = "probe_ops"])
    /\ UNCHANGED <<drv, mdrv, md, bus, q>>

\* variant: the driver's callback is reached without the attach
probe_install_ops_skip_attach(s) ==
    /\ slave[s].pc = "probe_ops"
    /\ Put(s, [slave[s] EXCEPT !.log = Logged(s, "ops"),
                               !.ops = drv.ops, !.pc = "probe_callback"])
    /\ UNCHANGED <<drv, mdrv, md, bus, q>>

\* slave->ops = drv->ops;
probe_install_ops(s) ==
    /\ slave[s].pc = "probe_ops"
    /\ Put(s, [slave[s] EXCEPT !.log = Logged(s, "ops"),
                               !.ops = drv.ops, !.pc = "probe_attach"])
    /\ UNCHANGED <<drv, mdrv, md, bus, q>>

\* variant: the result of the attach is not checked before the callback
probe_attach_unchecked(s) ==
    /\ slave[s].pc = "probe_attach"
    /\ \E r \in {0} \cup AttachErrs :
        Put(s, [slave[s] EXCEPT
            !.log = Logged(s, "attach"),
            !.pm_domain = IF r = 0 THEN TRUE ELSE @,
            !.attach_ret = r,
            !.ret = r,
            !.pc = "probe_callback"])
    /\ UNCHANGED <<drv, mdrv, md, bus, q>>

\* ret = dev_pm_domain_attach(dev, false); if (ret) return ret;
probe_attach(s) ==
    /\ slave[s].pc = "probe_attach"
    /\ \E r \in {0} \cup AttachErrs :
        Put(s, [slave[s] EXCEPT
            !.log = Logged(s, "attach"),
            !.pm_domain = IF r = 0 THEN TRUE ELSE @,
            !.attach_ret = r,
            !.ret = r,
            !.pc = IF r = 0 THEN "probe_callback" ELSE "probe_ret"])
    /\ UNCHANGED <<drv, mdrv, md, bus, q>>

\* ret = drv->probe(slave, id): the driver's callback, which may fill in
\* the property bag
probe_callback(s) ==
    /\ slave[s].pc = "probe_callback"
    /\ \E r \in {0} \cup CallbackErrs :
       \E v \in TimeoutVals \cup {slave[s].clk_stop_timeout} :
        Put(s, [slave[s] EXCEPT
            !.log = Logged(s, "probe"),
            !.cb_id = slave[s].id_found,
            !.cb_ret = r,
            !.ret = r,
            !.clk_stop_timeout = v,
            !.cb_clk = v,
            !.pc = IF r = 0 THEN "probe_read_prop" ELSE "probe_fail"])
    /\ UNCHANGED <<drv, mdrv, md, bus, q>>

\* variant: the error path returns without detaching the power domain
probe_fail_no_detach(s) ==
    /\ slave[s].pc = "probe_fail"
    /\ Put(s, [slave[s] EXCEPT !.pc = "probe_ret"])
    /\ UNCHANGED <<drv, mdrv, md, bus, q>>

\* if (ret) { dev_pm_domain_detach(dev, false); return ret; }
probe_fail(s) ==
    /\ slave[s].pc = "probe_fail"
    /\ Put(s, [slave[s] EXCEPT
            !.log = Logged(s, "detach"),
            !.pm_domain = FALSE,
            !.pc = "probe_ret"])
    /\ UNCHANGED <<drv, mdrv, md, bus, q>>

\* if (slave->ops && slave->ops->read_prop) slave->ops->read_prop(slave);
probe_read_prop(s) ==
    /\ slave[s].pc = "probe_read_prop"
    /\ IF slave[s].ops = "ops_read_prop"
       THEN \E v \in TimeoutVals \cup {slave[s].clk_stop_timeout} :
            Put(s, [slave[s] EXCEPT
                !.log = Logged(s, "read_prop"),
                !.clk_stop_timeout = v,
                !.cb_clk = v,
                !.pc = "probe_default"])
       ELSE Put(s, [slave[s] EXCEPT !.pc = "probe_default"])
    /\ UNCHANGED <<drv, mdrv, md, bus, q>>

\* variant: an unset clk_stop_timeout is left at zero
probe_default_missing(s) ==
    /\ slave[s].pc = "probe_default"
    /\ Put(s, [slave[s] EXCEPT !.log = Logged(s, "default"),
                               !.pc = "probe_bus_read"])
    /\ UNCHANGED <<drv, mdrv, md, bus, q>>

\* if (slave->prop.clk_stop_timeout == 0) slave->prop.clk_stop_timeout = 300;
probe_default(s) ==
    /\ slave[s].pc = "probe_default"
    /\ Put(s, [slave[s] EXCEPT
            !.log = Logged(s, "default"),
            !.clk_stop_timeout =
                IF @ = 0 THEN DefaultClkStopTimeout ELSE @,
            !.pc = "probe_bus_read"])
    /\ UNCHANGED <<drv, mdrv, md, bus, q>>

\* the load of slave->bus->clk_stop_timeout in the max_t expression
probe_bus_read(s) ==
    /\ slave[s].pc = "probe_bus_read"
    /\ Put(s, [slave[s] EXCEPT !.tmp = bus.clk_stop_timeout,
                               !.pc = "probe_bus_write"])
    /\ UNCHANGED <<drv, mdrv, md, bus, q>>

\* variant: the device's value is stored without taking the maximum
probe_bus_write_no_max(s) ==
    /\ slave[s].pc = "probe_bus_write"
    /\ bus' = [bus EXCEPT !.clk_stop_timeout = slave[s].clk_stop_timeout]
    /\ Put(s, [slave[s] EXCEPT !.log = Logged(s, "bus"),
                               !.pc = "probe_set_probed"])
    /\ UNCHANGED <<drv, mdrv, md, q>>

\* the store slave->bus->clk_stop_timeout = max_t(u32, ..., ...)
probe_bus_write(s) ==
    /\ slave[s].pc = "probe_bus_write"
    /\ bus' = [bus EXCEPT !.clk_stop_timeout =
                  max_t_u32(slave[s].tmp, slave[s].clk_stop_timeout)]
    /\ Put(s, [slave[s] EXCEPT !.log = Logged(s, "bus"),
                               !.pc = "probe_set_probed"])
    /\ UNCHANGED <<drv, mdrv, md, q>>

\* slave->probed = true;
probe_set_probed(s) ==
    /\ slave[s].pc = "probe_set_probed"
    /\ Put(s, [slave[s] EXCEPT !.probed = TRUE,
                               !.log = Logged(s, "probed"),
                               !.pc = "probe_complete"])
    /\ UNCHANGED <<drv, mdrv, md, bus, q>>

\* variant: the probe returns 0 without releasing the completion
probe_complete_missing(s) ==
    /\ slave[s].pc = "probe_complete"
    /\ Put(s, [slave[s] EXCEPT !.ret = 0, !.pc = "probe_ret"])
    /\ UNCHANGED <<drv, mdrv, md, bus, q>>

\* complete(&slave->probe_complete); return 0;
probe_complete(s) ==
    /\ slave[s].pc = "probe_complete"
    /\ Put(s, [slave[s] EXCEPT !.probe_complete = @ + 1,
                               !.bind_releases = @ + 1,
                               !.log = Logged(s, "complete"),
                               !.ret = 0,
                               !.pc = "probe_ret"])
    /\ UNCHANGED <<drv, mdrv, md, bus, q>>

\* the registry takes the probe hook's result: a failed probe leaves the
\* device without a driver
RegistryProbeDone(s) ==
    /\ slave[s].pc = "probe_ret"
    /\ Put(s, [slave[s] EXCEPT
            !.driver = (slave[s].ret = 0),
            !.succ = IF slave[s].ret = 0 THEN @ + 1 ELSE @,
            !.pc = "idle"])
    /\ UNCHANGED <<drv, mdrv, md, bus, q>>

\* ------------------------------------------------------ peripheral remove
\* the registry unbinds a bound device: it calls the driver record's remove
\* hook when one is installed, and then clears the device's driver pointer
RegistryUnbindSlave(s) ==
    /\ slave[s].pc = "idle"
    /\ slave[s].driver
    /\ IF drv.driver_remove = "sdw_drv_remove"
       THEN Put(s, [Enter(s, "remove") EXCEPT !.pc = "remove_callback"])
       ELSE Put(s, [Enter(s, "unbind") EXCEPT !.driver = FALSE])
    /\ UNCHANGED <<drv, mdrv, md, bus, q>>

\* int ret = 0; if (drv->remove) ret = drv->remove(slave);
remove_callback(s) ==
    /\ slave[s].pc = "remove_callback"
    /\ IF drv.remove
       THEN \E r \in {0} \cup CallbackErrs :
            Put(s, [slave[s] EXCEPT !.log = Logged(s, "remove"),
                                    !.cb_ret = r, !.ret = r,
                                    !.pc = "remove_detach"])
       ELSE Put(s, [slave[s] EXCEPT !.pc = "remove_detach"])
    /\ UNCHANGED <<drv, mdrv, md, bus, q>>

\* variant: a failed remove callback returns before the detach
remove_detach_unless_error(s) ==
    /\ slave[s].pc = "remove_detach"
    /\ IF slave[s].ret # 0
       THEN Put(s, [slave[s] EXCEPT !.pc = "remove_ret"])
       ELSE Put(s, [slave[s] EXCEPT !.log = Logged(s, "detach"),
                                    !.pm_domain = FALSE,
                                    !.pc = "remove_ret"])
    /\ UNCHANGED <<drv, mdrv, md, bus, q>>

\* dev_pm_domain_detach(dev, false); return ret;
remove_detach(s) ==
    /\ slave[s].pc = "remove_detach"
    /\ Put(s, [slave[s] EXCEPT !.log = Logged(s, "detach"),
                               !.pm_domain = FALSE,
                               !.pc = "remove_ret"])
    /\ UNCHANGED <<drv, mdrv, md, bus, q>>

\* the registry clears the driver pointer whatever the remove hook returned
RegistryRemoveDone(s) ==
    /\ slave[s].pc = "remove_ret"
    /\ Put(s, [slave[s] EXCEPT !.driver = FALSE, !.pc = "idle"])
    /\ UNCHANGED <<drv, mdrv, md, bus, q>>

\* ---------------------------------------------------- peripheral shutdown
\* at system shutdown the registry calls the shutdown hook of a bound
\* device's driver record when one is installed
RegistryShutdownSlave(s) ==
    /\ slave[s].pc = "idle"
    /\ slave[s].driver
    /\ drv.driver_shutdown = "sdw_drv_shutdown"
    /\ Put(s, [Enter(s, "shutdown") EXCEPT !.pc = "shutdown_callback"])
    /\ UNCHANGED <<drv, mdrv, md, bus, q>>

\* variant: the shutdown wrapper detaches the power domain as remove does
sdw_drv_shutdown_detaches(s) ==
    /\ slave[s].pc = "shutdown_callback"
    /\ Put(s, [slave[s] EXCEPT
            !.log = IF drv.shutdown THEN Logged(s, "shutdown") ELSE @,
            !.pm_domain = FALSE,
            !.pc = "idle"])
    /\ UNCHANGED <<drv, mdrv, md, bus, q>>

\* if (drv->shutdown) drv->shutdown(slave);
sdw_drv_shutdown(s) ==
    /\ slave[s].pc = "shutdown_callback"
    /\ Put(s, [slave[s] EXCEPT
            !.log = IF drv.shutdown THEN Logged(s, "shutdown") ELSE @,
            !.pc = "idle"])
    /\ UNCHANGED <<drv, mdrv, md, bus, q>>

\* ------------------------------------------------------- controller side
\* a controller driver record as its module declares it
NewMasterDriver(probe, remove, shutdown, name) ==
    [ probe |-> probe, remove |-> remove, shutdown |-> shutdown,
      startup |-> FALSE, process_wake_event |-> FALSE,
      name |-> name,
      driver_bus |-> "NULL", driver_owner |-> "NULL",
      driver_probe |-> "NULL", driver_remove |-> "NULL",
      driver_shutdown |-> "NULL",
      pc |-> "declared", ret |-> 0, registry_ret |-> 0, log |-> << >> ]

\* the controller device record sdw_master_device_add leaves behind:
\* master_name set, the completion initialised, no driver yet
NewMasterDevice(name) ==
    [ master_name |-> name, driver |-> FALSE, probe_complete |-> 0,
      pm_domain |-> FALSE, pc |-> "idle", ret |-> 0,
      attach_ret |-> 0, cb_ret |-> 0,
      op |-> "none", log |-> << >>, binds |-> 0,
      entry |-> [done |-> 0, pm_domain |-> FALSE] ]

MasterSnapshot == [done |-> md.probe_complete, pm_domain |-> md.pm_domain]
MasterLogged(what) == Append(md.log, what)
MasterEnter(op) ==
    [md EXCEPT !.op = op, !.log = << >>, !.entry = MasterSnapshot,
               !.ret = 0, !.attach_ret = 0, !.cb_ret = 0]

\* __sdw_register_master_driver up to the call of driver_register
sdw_register_master_driver ==
    /\ mdrv.pc = "declared"
    /\ IF ~mdrv.probe
       THEN mdrv' = [mdrv EXCEPT !.driver_bus = "sdw_bus_type",
                                 !.ret = -EINVAL, !.pc = "rejected"]
       ELSE mdrv' = [mdrv EXCEPT
                !.driver_bus = "sdw_bus_type",
                !.driver_owner = "owner",
                !.driver_probe = "sdw_master_drv_probe",
                !.driver_remove =
                    IF mdrv.remove THEN "sdw_master_drv_remove" ELSE @,
                !.driver_shutdown =
                    IF mdrv.shutdown THEN "sdw_master_drv_shutdown" ELSE @,
                !.pc = "driver_register"]
    /\ UNCHANGED <<drv, slave, md, bus, q>>

\* return driver_register(&mdrv->driver);
sdw_register_master_driver_call ==
    /\ mdrv.pc = "driver_register"
    /\ \E r \in {0} \cup RegistryErrs :
        mdrv' = [mdrv EXCEPT !.ret = r, !.registry_ret = r,
                             !.log = Append(@, "driver_register"),
                             !.pc = IF r = 0 THEN "registered" ELSE "refused"]
    /\ UNCHANGED <<drv, slave, md, bus, q>>

\* sdw_unregister_master_driver: the registry has released the device
sdw_unregister_master_driver ==
    /\ mdrv.pc = "registered"
    /\ ~md.driver
    /\ mdrv' = [mdrv EXCEPT !.pc = "unregistered",
                            !.log = Append(@, "driver_unregister")]
    /\ UNCHANGED <<drv, slave, md, bus, q>>

\* the registry pairs the controller device with the driver
RegistryBindMaster ==
    /\ mdrv.pc = "registered"
    /\ md.pc = "idle"
    /\ ~md.driver
    /\ md.binds < MaxBinds
    /\ sdw_bus_match_master(md.master_name, mdrv.name) = 1
    /\ mdrv.driver_probe = "sdw_master_drv_probe"
    /\ md' = [MasterEnter("probe") EXCEPT !.driver = TRUE,
                                          !.pc = "probe_attach",
                                          !.binds = @ + 1]
    /\ UNCHANGED <<drv, mdrv, slave, bus, q>>

\* ret = dev_pm_domain_attach(dev, false); if (ret) return ret;
master_probe_attach ==
    /\ md.pc = "probe_attach"
    /\ \E r \in {0} \cup AttachErrs :
        md' = [md EXCEPT
            !.log = MasterLogged("attach"),
            !.pm_domain = IF r = 0 THEN TRUE ELSE @,
            !.attach_ret = r,
            !.ret = r,
            !.pc = IF r = 0 THEN "probe_callback" ELSE "probe_ret"]
    /\ UNCHANGED <<drv, mdrv, slave, bus, q>>

\* ret = mdrv->probe(md, md->pdata); ... return 0;
master_probe_callback ==
    /\ md.pc = "probe_callback"
    /\ \E r \in {0} \cup CallbackErrs :
        md' = [md EXCEPT
            !.log = MasterLogged("probe"),
            !.cb_ret = r,
            !.ret = r,
            !.pc = IF r = 0 THEN "probe_ret" ELSE "probe_fail"]
    /\ UNCHANGED <<drv, mdrv, slave, bus, q>>

\* if (ret) { dev_pm_domain_detach(dev, false); return ret; }
master_probe_fail ==
    /\ md.pc = "probe_fail"
    /\ md' = [md EXCEPT
            !.log = MasterLogged("detach"),
            !.pm_domain = FALSE,
            !.pc = "probe_ret"]
    /\ UNCHANGED <<drv, mdrv, slave, bus, q>>

\* the registry takes the probe hook's result
RegistryProbeDoneMaster ==
    /\ md.pc = "probe_ret"
    /\ md' = [md EXCEPT !.driver = (md.ret = 0), !.pc = "idle"]
    /\ UNCHANGED <<drv, mdrv, slave, bus, q>>

\* the registry unbinds the controller device
RegistryUnbindMaster ==
    /\ md.pc = "idle"
    /\ md.driver
    /\ IF mdrv.driver_remove = "sdw_master_drv_remove"
       THEN md' = [MasterEnter("remove") EXCEPT !.pc = "remove_callback"]
       ELSE md' = [MasterEnter("unbind") EXCEPT !.driver = FALSE]
    /\ UNCHANGED <<drv, mdrv, slave, bus, q>>

\* int ret = 0; if (mdrv->remove) ret = mdrv->remove(md);
master_remove_callback ==
    /\ md.pc = "remove_callback"
    /\ IF mdrv.remove
       THEN \E r \in {0} \cup CallbackErrs :
            md' = [md EXCEPT !.log = MasterLogged("remove"),
                             !.cb_ret = r, !.ret = r,
                             !.pc = "remove_detach"]
       ELSE md' = [md EXCEPT !.pc = "remove_detach"]
    /\ UNCHANGED <<drv, mdrv, slave, bus, q>>

\* dev_pm_domain_detach(dev, false); return ret;
master_remove_detach ==
    /\ md.pc = "remove_detach"
    /\ md' = [md EXCEPT !.log = MasterLogged("detach"),
                        !.pm_domain = FALSE,
                        !.pc = "remove_ret"]
    /\ UNCHANGED <<drv, mdrv, slave, bus, q>>

RegistryRemoveDoneMaster ==
    /\ md.pc = "remove_ret"
    /\ md' = [md EXCEPT !.driver = FALSE, !.pc = "idle"]
    /\ UNCHANGED <<drv, mdrv, slave, bus, q>>

RegistryShutdownMaster ==
    /\ md.pc = "idle"
    /\ md.driver
    /\ mdrv.driver_shutdown = "sdw_master_drv_shutdown"
    /\ md' = [MasterEnter("shutdown") EXCEPT !.pc = "shutdown_callback"]
    /\ UNCHANGED <<drv, mdrv, slave, bus, q>>

\* if (mdrv->shutdown) mdrv->shutdown(md);
sdw_master_drv_shutdown ==
    /\ md.pc = "shutdown_callback"
    /\ md' = [md EXCEPT
            !.log = IF mdrv.shutdown THEN MasterLogged("shutdown") ELSE @,
            !.pc = "idle"]
    /\ UNCHANGED <<drv, mdrv, slave, bus, q>>

\* ------------------------------------------------------ the bind protocol
\* identity of a peripheral the driver's table lists, and of one it does not
ListedId == Entry(1, 1)
UnlistedId == Entry(2, 2)
MasterName == <<1, 0>>
MasterDriverName == <<1, 2, 0>>
NoQuery == [kind |-> "none"]

\* a driver whose module is not loaded never registers
Absent(d) == [d EXCEPT !.pc = "absent"]
SlaveDrivers ==
    { NewDriver(p, r, sh, o, t) :
        p \in BOOLEAN, r \in BOOLEAN, sh \in BOOLEAN,
        o \in OpsVals, t \in DriverTables }
MasterDrivers ==
    { NewMasterDriver(p, r, sh, MasterDriverName) :
        p \in BOOLEAN, r \in BOOLEAN, sh \in BOOLEAN }
FullSlaveDriver ==
    NewDriver(TRUE, TRUE, TRUE, "ops_read_prop",
              CHOOSE t \in DriverTables : TRUE)
FullMasterDriver == NewMasterDriver(TRUE, TRUE, TRUE, MasterDriverName)

\* One bus with one controller device and NSlaves peripherals, the first of
\* which the peripheral driver lists.  Either driver module is loaded with
\* any set of capabilities while the other is not loaded, or both are loaded
\* with every capability.
Init ==
    /\ \/ drv \in SlaveDrivers /\ mdrv = Absent(FullMasterDriver)
       \/ drv = Absent(FullSlaveDriver) /\ mdrv \in MasterDrivers
       \/ drv = FullSlaveDriver /\ mdrv = FullMasterDriver
    /\ slave = [s \in Slaves |->
                  NewSlave(IF s = 1 THEN ListedId ELSE UnlistedId)]
    /\ md = NewMasterDevice(MasterName)
    /\ bus \in { NewBus(t) : t \in BusTimeoutVals }
    /\ q = NoQuery

\* a step of a bind: the registry's pairing and the steps of sdw_drv_probe
ProbeStep(s) ==
    \/ RegistryBindSlave(s)
    \/ probe_get_id(s)
    \/ probe_install_ops(s)
    \/ probe_attach(s)
    \/ probe_callback(s)
    \/ probe_fail(s)
    \/ probe_read_prop(s)
    \/ probe_default(s)
    \/ probe_bus_read(s)
    \/ probe_bus_write(s)
    \/ probe_set_probed(s)
    \/ probe_complete(s)
    \/ RegistryProbeDone(s)

SlaveStep(s) ==
    \/ ProbeStep(s)
    \/ RegistryUnbindSlave(s)
    \/ remove_callback(s)
    \/ remove_detach(s)
    \/ RegistryRemoveDone(s)
    \/ RegistryShutdownSlave(s)
    \/ sdw_drv_shutdown(s)

MasterStep ==
    \/ RegistryBindMaster
    \/ master_probe_attach
    \/ master_probe_callback
    \/ master_probe_fail
    \/ RegistryProbeDoneMaster
    \/ RegistryUnbindMaster
    \/ master_remove_callback
    \/ master_remove_detach
    \/ RegistryRemoveDoneMaster
    \/ RegistryShutdownMaster
    \/ sdw_master_drv_shutdown

Next ==
    \/ sdw_register_driver
    \/ sdw_register_driver_call
    \/ sdw_unregister_driver
    \/ sdw_register_master_driver
    \/ sdw_register_master_driver_call
    \/ sdw_unregister_master_driver
    \/ \E s \in Slaves : SlaveStep(s)
    \/ MasterStep

Spec == Init /\ [][Next]_vars

\* ------------------------------------------------- concurrent binds
\* the peripheral driver with every capability, once registered
RegisteredSlaveDriver ==
    [FullSlaveDriver EXCEPT
        !.driver_bus = "sdw_bus_type", !.driver_owner = "owner",
        !.driver_probe = "sdw_drv_probe", !.driver_remove = "sdw_drv_remove",
        !.driver_shutdown = "sdw_drv_shutdown",
        !.log = <<"driver_register">>, !.pc = "registered"]

\* every peripheral of the bus is listed by the registered driver; the
\* registry binds them on separate threads
InitConc ==
    /\ drv = RegisteredSlaveDriver
    /\ mdrv = Absent(FullMasterDriver)
    /\ slave = [s \in Slaves |-> NewSlave(ListedId)]
    /\ md = NewMasterDevice(MasterName)
    /\ bus \in { NewBus(t) : t \in BusTimeoutVals }
    /\ q = NoQuery

NextConc == \E s \in Slaves : ProbeStep(s)

SpecConc == InitConc /\ [][NextConc]_vars

\* ------------------------------------------------- the defensive lookup
\* id_tables that list the first peripheral once, twice, not at all, or
\* only behind the sentinel, and the absent table
LookupTables ==
    DriverTables \cup
    { <<Entry(1, 1), Entry(0, 0)>>,
      <<Entry(2, 1), Entry(1, 2), Entry(0, 0)>>,
      <<Entry(2, 1), Entry(0, 0), Entry(1, 1)>>,
      NullTable }

\* the full peripheral driver is registered with one of the tables
InitLookup ==
    /\ drv \in { [RegisteredSlaveDriver EXCEPT !.id_table = t] :
                    t \in LookupTables }
    /\ mdrv = Absent(FullMasterDriver)
    /\ slave = [s \in Slaves |->
                  NewSlave(IF s = 1 THEN ListedId ELSE UnlistedId)]
    /\ md = NewMasterDevice(MasterName)
    /\ bus \in { NewBus(t) : t \in BusTimeoutVals }
    /\ q = NoQuery

NextLookup == \E s \in Slaves : DispatchProbe(s) \/ ProbeStep(s)

SpecLookup == InitLookup /\ [][NextLookup]_vars

\* ------------------------------------- controller startup and wake event
\* the md argument: NULL, an ERR_PTR value, or the controller device
MdArgs == {"NULL", "ERR_PTR", "md"}
IS_ERR_OR_NULL(arg) == arg \in {"NULL", "ERR_PTR"}
\* the outcome of one call, as the caller and the driver observe it
ApiResult(fn, arg, ret, log, cb_ret) ==
    [kind |-> "api", fn |-> fn, arg |-> arg, ret |-> ret, log |-> log,
     cb_ret |-> cb_ret]

\* variant: the callback's result is dropped
sdw_master_device_startup_drops_ret ==
    /\ \E arg \in MdArgs :
        IF IS_ERR_OR_NULL(arg)
        THEN q' = ApiResult("startup", arg, -EINVAL, << >>, 0)
        ELSE IF md.driver /\ mdrv.startup
        THEN \E r \in {0} \cup CallbackErrs :
                q' = ApiResult("startup", arg, 0, <<"startup">>, r)
        ELSE q' = ApiResult("startup", arg, 0, << >>, 0)
    /\ UNCHANGED <<drv, mdrv, slave, md, bus>>

\* sdw_master_device_startup(md)
sdw_master_device_startup ==
    /\ \E arg \in MdArgs :
        IF IS_ERR_OR_NULL(arg)
        THEN q' = ApiResult("startup", arg, -EINVAL, << >>, 0)
        ELSE IF md.driver /\ mdrv.startup
        THEN \E r \in {0} \cup CallbackErrs :
                q' = ApiResult("startup", arg, r, <<"startup">>, r)
        ELSE q' = ApiResult("startup", arg, 0, << >>, 0)
    /\ UNCHANGED <<drv, mdrv, slave, md, bus>>

\* sdw_master_device_process_wake_event(md)
sdw_master_device_process_wake_event ==
    /\ \E arg \in MdArgs :
        IF IS_ERR_OR_NULL(arg)
        THEN q' = ApiResult("process_wake_event", arg, -EINVAL, << >>, 0)
        ELSE IF md.driver /\ mdrv.process_wake_event
        THEN \E r \in {0} \cup CallbackErrs :
                q' = ApiResult("process_wake_event", arg, r,
                               <<"process_wake_event">>, r)
        ELSE q' = ApiResult("process_wake_event", arg, 0, << >>, 0)
    /\ UNCHANGED <<drv, mdrv, slave, md, bus>>

\* controller drivers with any set of the two optional callbacks
ApiMasterDrivers ==
    { [FullMasterDriver EXCEPT !.startup = a, !.process_wake_event = b] :
        a \in BOOLEAN, b \in BOOLEAN }

\* the controller's lifecycle, with the two calls made at any point of it
InitMasterApi ==
    /\ drv = Absent(FullSlaveDriver)
    /\ mdrv \in ApiMasterDrivers
    /\ slave = [s \in Slaves |->
                  NewSlave(IF s = 1 THEN ListedId ELSE UnlistedId)]
    /\ md = NewMasterDevice(MasterName)
    /\ bus = NewBus(0)
    /\ q = NoQuery

NextMasterApi ==
    \/ sdw_register_master_driver
    \/ sdw_register_master_driver_call
    \/ sdw_unregister_master_driver
    \/ MasterStep
    \/ sdw_master_device_startup
    \/ sdw_master_device_process_wake_event

SpecMasterApi == InitMasterApi /\ [][NextMasterApi]_vars

\* ------------------------------------------------------- the bus event
\* Strings are sequences of character codes.
\* one digit of %X: 0-9, then A-F
HexChar(d) == IF d < 10 THEN 48 + d ELSE 55 + d
\* %04X of a 16-bit value
Hex04X(n) ==
    << HexChar((n \div 4096) % 16), HexChar((n \div 256) % 16),
       HexChar((n \div 16) % 16), HexChar(n % 16) >>
\* snprintf(buf, size, ...): at most size - 1 characters of the formatted
\* text, then the terminating NUL
snprintf(size, text) ==
    SubSeq(text, 1, IF Len(text) < size - 1 THEN Len(text) ELSE size - 1)
        \o <<0>>
\* snprintf(buf, size, "sdw:m%04Xp%04X\n", mfg_id, part_id)
sdw_slave_modalias(id, size) ==
    snprintf(size, <<115, 100, 119, 58, 109>> \o Hex04X(id.mfg_id)
                     \o <<112>> \o Hex04X(id.part_id) \o <<10>>)
\* snprintf(buf, size, "sdw:%s\n", md->master_name)
sdw_master_modalias(master_name, size) ==
    snprintf(size, <<115, 100, 119, 58>>
                     \o SubSeq(master_name, 1, strlen(master_name))
                     \o <<10>>)

\* 16-bit identity fields, and controller names short and long enough to
\* fill the buffer
UeventIds == {0, 10, 4660, 22136, 43981, 65535}
UeventNames ==
    { [i \in 1..n |-> 97 + ((i - 1) % 26)] \o <<0>> :
        n \in {0, 1, 12, 26, 27, 28, 40} }
UeventQueries ==
    [kind : {"uevent"}, dev : {"slave"},
     id : [mfg_id : UeventIds, part_id : UeventIds],
     done : {FALSE}, env : {<< >>}, ret : {0}]
    \cup
    [kind : {"uevent"}, dev : {"master"}, master_name : UeventNames,
     done : {FALSE}, env : {<< >>}, ret : {0}]

\* sdw_uevent(dev, env): add_uevent_var fails when env has no room left
sdw_uevent ==
    /\ q.kind = "uevent"
    /\ ~q.done
    /\ LET modalias == IF q.dev = "slave"
                       THEN sdw_slave_modalias(q.id, ModaliasSize)
                       ELSE sdw_master_modalias(q.master_name, ModaliasSize)
       IN \E room \in BOOLEAN :
            IF room
            THEN q' = [q EXCEPT
                    !.env = << [key |-> "MODALIAS",
                                value |-> SubSeq(modalias, 1,
                                                 strlen(modalias))] >>,
                    !.ret = 0, !.done = TRUE]
            ELSE q' = [q EXCEPT !.ret = -ENOMEM, !.done = TRUE]
    /\ UNCHANGED <<drv, mdrv, slave, md, bus>>

\* the registry raises one event for one device
InitUevent ==
    /\ drv = RegisteredSlaveDriver
    /\ mdrv = Absent(FullMasterDriver)
    /\ slave = [s \in Slaves |-> NewSlave(ListedId)]
    /\ md = NewMasterDevice(MasterName)
    /\ bus = NewBus(0)
    /\ q \in UeventQueries

NextUevent == sdw_uevent

SpecUevent == InitUevent /\ [][NextUevent]_vars

\* --------------------------------------------------- the match predicate
MatchQueries ==
    [kind : {"slave"}, id : DeviceIds, id_table : IdTables,
     found : {0}, answered : {FALSE}, ret : {0}]
    \cup
    [kind : {"master"}, master_name : CStrings, driver_name : CStrings,
     answered : {FALSE}, ret : {0}]

\* sdw_bus_match(dev, ddrv) on the query's device and driver
sdw_bus_match ==
    /\ q.kind \in {"slave", "master"}
    /\ ~q.answered
    /\ IF q.kind = "slave"
       THEN q' = [q EXCEPT
                !.found = sdw_get_device_id(q.id, q.id_table),
                !.ret = sdw_bus_match_slave(q.id, q.id_table),
                !.answered = TRUE]
       ELSE q' = [q EXCEPT
                !.ret = sdw_bus_match_master(q.master_name, q.driver_name),
                !.answered = TRUE]
    /\ UNCHANGED <<drv, mdrv, slave, md, bus>>

\* the registry asks about one device and one driver
InitMatch ==
    /\ drv = RegisteredSlaveDriver
    /\ mdrv = Absent(FullMasterDriver)
    /\ slave = [s \in Slaves |-> NewSlave(ListedId)]
    /\ md = NewMasterDevice(MasterName)
    /\ bus = NewBus(0)
    /\ q \in MatchQueries

NextMatch == sdw_bus_match

SpecMatch == InitMatch /\ [][NextMatch]_vars

\* ------------------------------------------------ properties of the match
\* position of the sentinel: the first entry whose mfg_id is zero
SentinelAt(t) ==
    CHOOSE i \in 1..Len(t) :
        /\ t[i].mfg_id = 0
        /\ \A j \in 1..(i - 1) : t[j].mfg_id # 0
\* positions of the entries before the sentinel that equal the identity
MatchingEntries(id, t) ==
    IF t = NullTable THEN {}
    ELSE { i \in 1..(SentinelAt(t) - 1) :
             t[i].mfg_id = id.mfg_id /\ t[i].part_id = id.part_id }
First(S) == CHOOSE i \in S : \A j \in S : i <= j
MatchInputsUntouched ==
    /\ drv = RegisteredSlaveDriver
    /\ mdrv = Absent(FullMasterDriver)
    /\ slave = [s \in Slaves |-> NewSlave(ListedId)]
    /\ md = NewMasterDevice(MasterName)
    /\ bus = NewBus(0)

\* C9: the peripheral match answers true exactly when an entry before the
\* first zero-mfg_id sentinel has the device's mfg_id and part_id; the entry
\* resolved is the first such entry; an absent table, a device with mfg_id 0
\* and entries after the sentinel give no match; no other state is written.
C9_PeripheralMatch ==
    (q.kind = "slave" /\ q.answered) =>
        LET M == MatchingEntries(q.id, q.id_table) IN
        /\ (q.ret = 1) <=> (M # {})
        /\ q.ret \in {0, 1}
        /\ q.found = IF M = {} THEN 0 ELSE First(M)
        /\ (q.id_table = NullTable) => q.ret = 0
        /\ (q.id.mfg_id = 0) => q.ret = 0
        /\ MatchInputsUntouched

\* a match resolved to the second entry of a three-entry table
C9_Witness ==
    /\ q.kind = "slave" /\ q.answered
    /\ q.ret = 1 /\ q.found = 2
    /\ Len(q.id_table) = 3

Content(s) == SubSeq(s, 1, Len(s) - 1)
IsPrefix(d, r) ==
    /\ Len(d) <= Len(r)
    /\ \A i \in 1..Len(d) : d[i] = r[i]

\* C10: the controller match answers true exactly when the device's name is
\* a prefix of the driver's name; so a longer device name never matches and
\* an empty device name matches every driver.
C10_ControllerMatch ==
    (q.kind = "master" /\ q.answered) =>
        /\ (q.ret = 1) <=>
              IsPrefix(Content(q.master_name), Content(q.driver_name))
        /\ q.ret \in {0, 1}
        /\ Len(q.master_name) > Len(q.driver_name) => q.ret = 0
        /\ Content(q.master_name) = << >> => q.ret = 1

\* a device name that is a proper prefix of the driver's name matches
C10_Witness ==
    /\ q.kind = "master" /\ q.answered /\ q.ret = 1
    /\ Len(Content(q.master_name)) >= 1
    /\ Len(Content(q.master_name)) < Len(Content(q.driver_name))

\* ------------------------------------------- properties of the wrappers
\* the wrapper entered for operation op on peripheral s has returned
Returned(s, op) ==
    /\ slave[s].op = op
    /\ slave[s].pc \in {op \o "_ret", "idle"}
MasterReturned(op) ==
    /\ md.op = op
    /\ md.pc \in {op \o "_ret", "idle"}
Has(log, what) == Count(log, what) > 0

\* the peripheral probe attached the power domain and the driver's probe
\* callback then returned an error
SlaveCallbackFailed(s) ==
    /\ Returned(s, "probe")
    /\ Has(slave[s].log, "attach") /\ slave[s].attach_ret = 0
    /\ slave[s].cb_ret # 0
MasterCallbackFailed ==
    /\ MasterReturned("probe")
    /\ Has(md.log, "attach") /\ md.attach_ret = 0
    /\ md.cb_ret # 0

\* C1: when attach succeeded and the driver's probe callback returns an
\* error e, the probe wrapper (peripheral and controller) detaches the power
\* domain exactly once, returns e, and does none of the later steps: no
\* read_prop, device and bus clk_stop_timeout as the callback left them,
\* probed not written, the completion not released.
C1_ProbeCallbackFailure ==
    /\ \A s \in Slaves : SlaveCallbackFailed(s) =>
        /\ Count(slave[s].log, "detach") = 1
        /\ ~slave[s].pm_domain
        /\ slave[s].ret = slave[s].cb_ret
        /\ ~Has(slave[s].log, "read_prop")
        /\ slave[s].clk_stop_timeout = slave[s].cb_clk
        /\ bus.clk_stop_timeout = slave[s].entry.bus
        /\ ~Has(slave[s].log, "probed")
        /\ slave[s].probed = slave[s].entry.probed
        /\ ~Has(slave[s].log, "complete")
        /\ slave[s].probe_complete = slave[s].entry.done
    /\ MasterCallbackFailed =>
        /\ Count(md.log, "detach") = 1
        /\ ~md.pm_domain
        /\ md.ret = md.cb_ret
        /\ md.probe_complete = md.entry.done

\* both kinds of device have had their driver's probe callback fail, the
\* peripheral with a changed property bag
C1_Witness ==
    /\ SlaveCallbackFailed(1) /\ slave[1].pc = "idle"
    /\ slave[1].cb_clk # slave[1].entry.clk
    /\ MasterCallbackFailed /\ md.pc = "idle"

SlaveAttachFailed(s) ==
    /\ Returned(s, "probe")
    /\ Has(slave[s].log, "attach") /\ slave[s].attach_ret # 0
MasterAttachFailed ==
    /\ MasterReturned("probe")
    /\ Has(md.log, "attach") /\ md.attach_ret # 0

\* C2: when power-domain attach returns an error e, the probe wrapper
\* (peripheral and controller) returns e, never invokes the driver's probe
\* callback, does not detach, and leaves probed, the completion and the bus
\* clk_stop_timeout as they were.
C2_AttachFailure ==
    /\ \A s \in Slaves : SlaveAttachFailed(s) =>
        /\ slave[s].ret = slave[s].attach_ret
        /\ ~Has(slave[s].log, "probe")
        /\ ~Has(slave[s].log, "detach")
        /\ slave[s].pm_domain = slave[s].entry.pm_domain
        /\ ~Has(slave[s].log, "probed")
        /\ slave[s].probed = slave[s].entry.probed
        /\ ~Has(slave[s].log, "complete")
        /\ slave[s].probe_complete = slave[s].entry.done
        /\ bus.clk_stop_timeout = slave[s].entry.bus
    /\ MasterAttachFailed =>
        /\ md.ret = md.attach_ret
        /\ ~Has(md.log, "probe")
        /\ ~Has(md.log, "detach")
        /\ md.pm_domain = md.entry.pm_domain
        /\ md.probe_complete = md.entry.done

\* attach has failed for the peripheral and for the controller
C2_Witness ==
    /\ SlaveAttachFailed(1) /\ slave[1].pc = "idle"
    /\ MasterAttachFailed /\ md.pc = "idle"

\* C3: a peripheral probe that returns success leaves probed set and the
\* power domain attached and has released the completion exactly once; over
\* a device's probes, removes and shutdowns the completion has been released
\* as many times as probes have succeeded.
C3_SuccessfulProbe ==
    \A s \in Slaves :
        /\ (Returned(s, "probe") /\ slave[s].ret = 0) =>
            /\ slave[s].probed
            /\ slave[s].pm_domain
            /\ Count(slave[s].log, "complete") = 1
            /\ slave[s].probe_complete = slave[s].entry.done + 1
        /\ (Returned(s, "probe") /\ slave[s].ret # 0) =>
            slave[s].probe_complete = slave[s].entry.done
        /\ (slave[s].op \in {"remove", "unbind", "shutdown"}) =>
            slave[s].probe_complete = slave[s].entry.done
        /\ slave[s].pc = "idle" => slave[s].probe_complete = slave[s].succ

\* a second successful probe of the same peripheral has returned
C3_Witness ==
    /\ Returned(1, "probe") /\ slave[1].pc = "idle" /\ slave[1].ret = 0
    /\ slave[1].succ = 2

\* C5: the remove wrapper (peripheral and controller) detaches the power
\* domain exactly once, after the driver's remove callback if there is one
\* and whatever it returned, and returns the callback's result, or 0 when
\* the driver declares no remove.
C5_RemoveDetaches ==
    /\ \A s \in Slaves : Returned(s, "remove") =>
        /\ Count(slave[s].log, "detach") = 1
        /\ slave[s].log[Len(slave[s].log)] = "detach"
        /\ ~slave[s].pm_domain
        /\ Count(slave[s].log, "remove") = IF drv.remove THEN 1 ELSE 0
        /\ slave[s].ret = IF drv.remove THEN slave[s].cb_ret ELSE 0
    /\ MasterReturned("remove") =>
        /\ Count(md.log, "detach") = 1
        /\ md.log[Len(md.log)] = "detach"
        /\ ~md.pm_domain
        /\ Count(md.log, "remove") = IF mdrv.remove THEN 1 ELSE 0
        /\ md.ret = IF mdrv.remove THEN md.cb_ret ELSE 0

\* both remove wrappers have returned after their callback failed
C5_Witness ==
    /\ Returned(1, "remove") /\ slave[1].cb_ret # 0
    /\ slave[1].entry.pm_domain
    /\ MasterReturned("remove") /\ md.cb_ret # 0
    /\ md.entry.pm_domain

NoHooks(d) ==
    /\ d.driver_probe = "NULL"
    /\ d.driver_remove = "NULL"
    /\ d.driver_shutdown = "NULL"

\* C6: registering a driver that declares no probe (peripheral and
\* controller) fails with -EINVAL, never calls driver_register and installs
\* none of the probe, remove and shutdown hooks.
C6_RegisterWithoutProbe ==
    /\ (~drv.probe /\ drv.pc \notin {"declared", "absent"}) =>
        /\ drv.pc = "rejected"
        /\ drv.ret = -EINVAL
        /\ ~Has(drv.log, "driver_register")
        /\ NoHooks(drv)
    /\ (~mdrv.probe /\ mdrv.pc \notin {"declared", "absent"}) =>
        /\ mdrv.pc = "rejected"
        /\ mdrv.ret = -EINVAL
        /\ ~Has(mdrv.log, "driver_register")
        /\ NoHooks(mdrv)

\* a peripheral driver that declares remove and shutdown but no probe has
\* been put to registration
C6_Witness ==
    /\ ~drv.probe /\ drv.remove /\ drv.shutdown
    /\ drv.pc = "rejected"

\* a controller driver without probe has been put to registration
C6_WitnessMaster ==
    /\ ~mdrv.probe /\ mdrv.remove /\ mdrv.shutdown
    /\ mdrv.pc = "rejected"

\* C7 (as claimed): whenever no wrapper is in flight a peripheral has a
\* driver exactly when probed is set and the completion has been released
\* once for the current bind; after a remove, and after a failed probe,
\* probed is false.
C7_BoundIffProbed ==
    \A s \in Slaves : slave[s].pc = "idle" =>
        /\ slave[s].driver <=>
              (slave[s].probed /\ slave[s].bind_releases = 1)
        /\ slave[s].op \in {"remove", "unbind"} => ~slave[s].probed
        /\ (slave[s].op = "probe" /\ slave[s].ret # 0) => ~slave[s].probed

Accepted(d) == d.pc = "registered"

\* C8 (as claimed): for a driver the facade accepted, with or without a
\* remove capability, whenever no wrapper is in flight the power domain of
\* a device is attached exactly while the device has a driver.
C8_PowerDomainBracketsBind ==
    /\ \A s \in Slaves : (Accepted(drv) /\ slave[s].pc = "idle") =>
        (slave[s].pm_domain <=> slave[s].driver)
    /\ (Accepted(mdrv) /\ md.pc = "idle") =>
        (md.pm_domain <=> md.driver)

SetMax(S) == CHOOSE x \in S : \A y \in S : x >= y

\* C4 (as claimed): once the concurrent probes of all peripherals of the
\* bus have succeeded, the bus clk_stop_timeout is the maximum of its
\* initial value and every peripheral's clk_stop_timeout.
C4_NoLostUpdate ==
    (\A s \in Slaves : slave[s].pc = "idle" /\ slave[s].driver) =>
        bus.clk_stop_timeout =
            SetMax({bus.initial} \cup
                   { slave[s].clk_stop_timeout : s \in Slaves })


\* C12 (as claimed): a controller probe that returns success has released
\* the controller device's probe completion exactly once.
C12_MasterProbeCompletes ==
    (MasterReturned("probe") /\ md.ret = 0) =>
        md.probe_complete = md.entry.done + 1


\* position of the first occurrence of a call in a log, 0 when absent
Pos(log, what) ==
    IF Has(log, what)
    THEN CHOOSE i \in 1..Len(log) :
            log[i] = what /\ \A j \in 1..(i - 1) : log[j] # what
    ELSE 0

\* C13: after a successful peripheral probe the device's clk_stop_timeout
\* is not zero: it is 300 when the driver's probe and read_prop callbacks
\* left it at zero and the value they left otherwise; the check comes after
\* read_prop, whose outcome never fails the probe; the bus clk_stop_timeout
\* is the maximum of its previous value and the device's value.
C13_TimeoutDefault ==
    \A s \in Slaves :
        /\ (Returned(s, "probe") /\ slave[s].ret = 0) =>
            /\ slave[s].clk_stop_timeout # 0
            /\ slave[s].clk_stop_timeout =
                  IF slave[s].cb_clk = 0 THEN DefaultClkStopTimeout
                  ELSE slave[s].cb_clk
            /\ bus.clk_stop_timeout =
                  Max(slave[s].entry.bus, slave[s].clk_stop_timeout)
            /\ Has(slave[s].log, "read_prop") =>
                  Pos(slave[s].log, "read_prop") < Pos(slave[s].log, "default")
        /\ (Returned(s, "probe") /\ Has(slave[s].log, "read_prop")) =>
            slave[s].ret = 0

\* a device whose callbacks left clk_stop_timeout at 0 was probed on a bus
\* at 150: the device is at 300 and so is the bus
C13_Witness ==
    /\ Returned(1, "probe") /\ slave[1].ret = 0
    /\ Has(slave[1].log, "read_prop")
    /\ slave[1].cb_clk = 0 /\ slave[1].entry.bus = 150
    /\ slave[1].clk_stop_timeout = 300 /\ bus.clk_stop_timeout = 300


\* C14: over the probes, removes and shutdowns of the peripheral and the
\* controller of one bus, the bus clk_stop_timeout never decreases, and the
\* only step that writes it is the store of a peripheral probe whose attach
\* and driver callback have succeeded.
C14_BusTimeoutMonotone ==
    [][ /\ bus'.clk_stop_timeout >= bus.clk_stop_timeout
        /\ bus' # bus =>
            \E s \in Slaves :
                /\ slave[s].op = "probe"
                /\ slave[s].pc = "probe_bus_write"
                /\ slave[s].attach_ret = 0 /\ slave[s].cb_ret = 0
                /\ Has(slave[s].log, "probe")
                /\ slave'[s].pc = "probe_set_probed" ]_vars

\* the peripheral that raised the bus value has been removed, the
\* controller has been removed too, and the bus value is still raised
C14_Witness ==
    /\ Returned(1, "remove") /\ slave[1].pc = "idle"
    /\ MasterReturned("remove") /\ md.pc = "idle"
    /\ bus.clk_stop_timeout > bus.initial
    /\ bus.clk_stop_timeout = slave[1].clk_stop_timeout


\* C15 (as claimed): a peripheral probe that fails at power-domain attach
\* or at the driver's probe callback leaves the device's ops as they were
\* before the probe started.
C15_FailedProbeRestoresOps ==
    \A s \in Slaves :
        (SlaveAttachFailed(s) \/ SlaveCallbackFailed(s)) =>
            slave[s].ops = slave[s].entry.ops


\* the steps of a peripheral probe in the order claimed; the detach of the
\* error path follows the driver's callback
ProbeOrder ==
    <<"get_id", "ops", "attach", "probe", "detach", "read_prop", "default",
      "bus", "probed", "complete">>
Rank(what) == CHOOSE i \in 1..Len(ProbeOrder) : ProbeOrder[i] = what
FullProbeLog(withReadProp) ==
    <<"get_id", "ops", "attach", "probe">> \o
    (IF withReadProp THEN <<"read_prop">> ELSE << >>) \o
    <<"default", "bus", "probed", "complete">>

ProbeOrderKept(s) ==
    LET log == slave[s].log IN
    /\ \A i, j \in 1..Len(log) : i < j => Rank(log[i]) < Rank(log[j])
    /\ Has(log, "probe") =>
          (Has(log, "attach") /\ slave[s].attach_ret = 0)
    /\ Has(log, "complete") => (Has(log, "probed") /\ slave[s].probed)
    /\ Has(log, "read_prop") => drv.ops = "ops_read_prop"
    /\ (Returned(s, "probe") /\ slave[s].ret = 0) =>
          log = FullProbeLog(drv.ops = "ops_read_prop")

\* C16: the steps of a peripheral probe occur in the order resolve the
\* identity entry, install ops, attach, driver probe callback, read_prop
\* (only when ops declares it), default and raise the timeouts, set probed,
\* release the completion; the callback is never invoked before the attach
\* has succeeded, the completion is never released while probed is false,
\* and probed is written only by that step of a successful probe.
C16_ProbeStepOrder ==
    /\ [](\A s \in Slaves : slave[s].op = "probe" => ProbeOrderKept(s))
    /\ [][ \A s \in Slaves :
            /\ slave'[s].probed # slave[s].probed =>
                /\ slave[s].pc = "probe_set_probed"
                /\ slave[s].attach_ret = 0 /\ slave[s].cb_ret = 0
                /\ Has(slave[s].log, "probe")
            /\ slave'[s].probe_complete # slave[s].probe_complete =>
                slave[s].probed ]_vars

\* a probe with read_prop has run through all of its steps
C16_Witness ==
    /\ Returned(1, "probe") /\ slave[1].ret = 0
    /\ slave[1].log = FullProbeLog(TRUE)


\* C18: the shutdown wrapper (peripheral and controller) invokes the
\* driver's shutdown callback once when the driver declares one and nothing
\* otherwise; it neither attaches nor detaches the power domain, leaves
\* probed, the completion, ops and the device and bus clk_stop_timeout as
\* they were, and reports no error.
C18_ShutdownFrame ==
    /\ \A s \in Slaves : slave[s].op = "shutdown" =>
        /\ slave[s].pc \in {"shutdown_callback", "idle"}
        /\ slave[s].pc = "idle" =>
              slave[s].log = IF drv.shutdown THEN <<"shutdown">> ELSE << >>
        /\ slave[s].pc = "shutdown_callback" => slave[s].log = << >>
        /\ slave[s].pm_domain = slave[s].entry.pm_domain
        /\ slave[s].probed = slave[s].entry.probed
        /\ slave[s].probe_complete = slave[s].entry.done
        /\ slave[s].ops = slave[s].entry.ops
        /\ slave[s].clk_stop_timeout = slave[s].entry.clk
        /\ bus.clk_stop_timeout = slave[s].entry.bus
        /\ slave[s].ret = 0
        /\ slave[s].driver
    /\ md.op = "shutdown" =>
        /\ md.pc \in {"shutdown_callback", "idle"}
        /\ md.pc = "idle" =>
              md.log = IF mdrv.shutdown THEN <<"shutdown">> ELSE << >>
        /\ md.pc = "shutdown_callback" => md.log = << >>
        /\ md.pm_domain = md.entry.pm_domain
        /\ md.probe_complete = md.entry.done
        /\ md.ret = 0
        /\ md.driver

\* both shutdown wrappers have run on bound devices
C18_Witness ==
    /\ slave[1].op = "shutdown" /\ slave[1].pc = "idle"
    /\ slave[1].log = <<"shutdown">> /\ slave[1].entry.pm_domain
    /\ md.op = "shutdown" /\ md.pc = "idle" /\ md.log = <<"shutdown">>


\* the hooks the facade owes a driver record that declares probe
HooksInstalled(d, probeHook, removeHook, shutdownHook) ==
    /\ d.driver_bus = "sdw_bus_type"
    /\ d.driver_owner = "owner"
    /\ d.driver_probe = probeHook
    /\ d.driver_remove = IF d.remove THEN removeHook ELSE "NULL"
    /\ d.driver_shutdown = IF d.shutdown THEN shutdownHook ELSE "NULL"
RegistrationDone(d, probeHook, removeHook, shutdownHook) ==
    (d.probe /\ d.pc \notin {"declared", "absent"}) =>
        /\ HooksInstalled(d, probeHook, removeHook, shutdownHook)
        /\ d.pc = "driver_register" => ~Has(d.log, "driver_register")
        /\ d.pc # "driver_register" =>
            /\ Count(d.log, "driver_register") = 1
            /\ d.ret = d.registry_ret
            /\ d.pc = "refused" <=> d.ret # 0

\* C19: registering a driver that declares probe (peripheral and
\* controller) installs the probe wrapper, the remove wrapper exactly when
\* remove is declared and the shutdown wrapper exactly when shutdown is
\* declared, all before driver_register is called, and returns the result
\* of driver_register.
C19_RegisterInstallsHooks ==
    /\ RegistrationDone(drv, "sdw_drv_probe", "sdw_drv_remove",
                        "sdw_drv_shutdown")
    /\ RegistrationDone(mdrv, "sdw_master_drv_probe", "sdw_master_drv_remove",
                        "sdw_master_drv_shutdown")

\* the registry refused a peripheral driver with remove but no shutdown
C19_Witness ==
    /\ drv.probe /\ drv.remove /\ ~drv.shutdown
    /\ drv.pc = "refused" /\ drv.ret \in RegistryErrs


\* the device and the driver's table are as they were when matched
LookupInputsUnchanged(s) ==
    /\ slave[s].id = IF s = 1 THEN ListedId ELSE UnlistedId
    /\ drv.id_table \in LookupTables
LookupAgrees(s) ==
    LET M == MatchingEntries(slave[s].id, drv.id_table)
        looked == slave[s].op = "probe" /\ Has(slave[s].log, "get_id")
    IN
    /\ (slave[s].op = "probe" /\ slave[s].matched = 1) => M # {}
    /\ (looked /\ slave[s].matched = 1) =>
        /\ slave[s].id_found = First(M)
        /\ ~(slave[s].ret = -ENODEV /\ slave[s].log = <<"get_id">>)
        /\ Has(slave[s].log, "probe") => slave[s].cb_id = First(M)
    /\ (looked /\ M = {}) =>
        /\ slave[s].id_found = 0
        /\ slave[s].ret = -ENODEV
        /\ slave[s].log = <<"get_id">>
        /\ slave[s].pc \in {"probe_ret", "idle"}
        /\ slave[s].ops = slave[s].entry.ops
        /\ slave[s].pm_domain = slave[s].entry.pm_domain
        /\ slave[s].clk_stop_timeout = slave[s].entry.clk
        /\ slave[s].probed = slave[s].entry.probed
        /\ slave[s].probe_complete = slave[s].entry.done

\* C17: after a true match on an unchanged device identity and driver
\* table, the lookup of sdw_drv_probe succeeds and the driver's probe
\* callback receives the first table entry equal to the identity; when the
\* lookup finds no entry, sdw_drv_probe returns -ENODEV with the ops not
\* installed, the power domain not attached and the callback not invoked.
C17_MatchAndProbeAgree ==
    \A s \in Slaves : LookupInputsUnchanged(s) /\ LookupAgrees(s)

\* in one state: the listed peripheral's callback received the second entry
\* of a table that lists it twice, and the lookup has failed for an unlisted
\* peripheral whose ops differ from the driver's
C17_Witness ==
    /\ \E s \in Slaves :
        /\ slave[s].matched = 1 /\ Has(slave[s].log, "probe")
        /\ slave[s].cb_id = 2
        /\ Cardinality(MatchingEntries(slave[s].id, drv.id_table)) = 2
    /\ \E s \in Slaves :
        /\ slave[s].op = "probe" /\ slave[s].matched = 0
        /\ slave[s].ret = -ENODEV /\ slave[s].pc = "probe_ret"
        /\ slave[s].ops # drv.ops


\* what one call of either function owes, given the state it was made in
ApiCallCorrect ==
    LET declared == IF q'.fn = "startup" THEN mdrv.startup
                    ELSE mdrv.process_wake_event
    IN
    /\ q'.kind = "api"
    /\ q'.fn \in {"startup", "process_wake_event"}
    /\ IS_ERR_OR_NULL(q'.arg) => q'.ret = -EINVAL /\ q'.log = << >>
    /\ (q'.arg = "md" /\ md.driver /\ declared) =>
            q'.log = <<q'.fn>> /\ q'.ret = q'.cb_ret
    /\ (q'.arg = "md" /\ ~(md.driver /\ declared)) =>
            q'.log = << >> /\ q'.ret = 0
    /\ md' = md /\ mdrv' = mdrv /\ slave' = slave /\ bus' = bus

\* C20: sdw_master_device_startup and sdw_master_device_process_wake_event
\* return -EINVAL and invoke nothing for a null or error-valued device;
\* otherwise they invoke the bound driver's corresponding callback exactly
\* once when a driver is bound and declares it, returning its result, and
\* return 0 invoking nothing when no driver is bound or the callback is not
\* declared; the power-domain and completion state are never changed.
C20_StartupAndWakeEvent ==
    [][ (q' # q) => ApiCallCorrect ]_vars

\* the bound driver's process_wake_event was called and its error returned
C20_Witness ==
    /\ q.kind = "api" /\ q.fn = "process_wake_event" /\ q.arg = "md"
    /\ q.log = <<"process_wake_event">>
    /\ q.ret \in CallbackErrs
    /\ md.driver /\ md.pm_domain


\* the characters 0-9 and A-F
UpperHexDigits ==
    <<48, 49, 50, 51, 52, 53, 54, 55, 56, 57, 65, 66, 67, 68, 69, 70>>
RECURSIVE Pow16(_)
Pow16(k) == IF k = 0 THEN 1 ELSE 16 * Pow16(k - 1)
FourUpperHexDigits(n) ==
    [i \in 1..4 |-> UpperHexDigits[((n \div Pow16(4 - i)) % 16) + 1]]
\* "sdw:m" mfg "p" part
ClaimedSlaveModalias(id) ==
    <<115, 100, 119, 58, 109>> \o FourUpperHexDigits(id.mfg_id)
        \o <<112>> \o FourUpperHexDigits(id.part_id)
\* "sdw:" name, cut to what a 32-byte buffer holds
ClaimedMasterModalias(name) ==
    LET text == <<115, 100, 119, 58>> \o Content(name) IN
    SubSeq(text, 1, IF Len(text) < 31 THEN Len(text) ELSE 31)

\* C11: the MODALIAS variable published for a peripheral is exactly "sdw:m",
\* the manufacturer id as 4 uppercase hex digits, "p" and the part id as 4
\* uppercase hex digits, with nothing before or after; for a controller it
\* is exactly "sdw:" followed by the controller name, cut to the 32-byte
\* buffer.
C11_ModaliasExact ==
    (q.kind = "uevent" /\ q.done /\ q.ret = 0) =>
        /\ Len(q.env) = 1
        /\ q.env[1].key = "MODALIAS"
        /\ q.env[1].value = IF q.dev = "slave"
                            THEN ClaimedSlaveModalias(q.id)
                            ELSE ClaimedMasterModalias(q.master_name)

====
